---- MODULE Spec2Model ----
(***************************************************************************)
(* Model of part3_calibration.ipynb: synthetic data generation, the        *)
(* Gaussian log-likelihood, the bounded uniform prior, the log-posterior   *)
(* and the ensemble MCMC run over it.                                      *)
(*                                                                         *)
(* Numbers.  A float is a record [fin, v].  A finite float holds its value *)
(* in hundredths (fixed point, 1.0 is 100); the three non-finite floats    *)
(* are INF, NINF and NAN and follow the IEEE-754 rules numpy applies       *)
(* (a warning, never an exception).                                        *)
(***************************************************************************)
EXTENDS Integers, Sequences, FiniteSets, TLC

----------------------------------------------------------------------------
(* Bounds of the model *)

\* number of points of the time grid (np.arange(0,50,1) has 50)
NumTimes == 3
\* number of walkers of the ensemble (the notebook uses 10)
NumWalkers == 2
\* number of MCMC steps (the notebook runs 12500)
NumSteps == 3
\* burn-in prefix dropped by get_chain (the notebook drops 500)
Discard == 1
\* internal steps the integrator takes between two points of the grid
SubSteps == 4
\* number of states of the pseudo-random generator
RngMod == 16
\* number of posterior samples drawn for the plot (the notebook draws 100)
NumPlotted == 2
\* number of times the notebook is run from top to bottom
MaxRuns == 2

----------------------------------------------------------------------------
(* IEEE-754 values and arithmetic, finite part in hundredths *)

Fin(n) == [fin |-> TRUE, v |-> n]
INF == [fin |-> FALSE, v |-> 1]
NINF == [fin |-> FALSE, v |-> -1]
NAN == [fin |-> FALSE, v |-> 0]

IsFinite(a) == a.fin
IsNaN(a) == (~a.fin) /\ a.v = 0
Sign(n) == IF n > 0 THEN 1 ELSE IF n < 0 THEN -1 ELSE 0
Signed(s) == [fin |-> FALSE, v |-> s]

\* F applied to the value of a, computed once
With(a, F(_)) == CHOOSE r \in {F(x) : x \in {v \in {a} : v = v}} : TRUE

\* An operation evaluates its operands once, before it is applied
Strict1(F(_), a) == CHOOSE r \in {F(x) : x \in {a}} : TRUE
Strict2(F(_, _), a, b) == CHOOSE r \in {F(x, z) : x \in {a}, z \in {b}} : TRUE

NegOf(a) == [fin |-> a.fin, v |-> 0 - a.v]

AddOf(a, b) ==
    IF a.fin /\ b.fin THEN Fin(a.v + b.v)
    ELSE IF IsNaN(a) \/ IsNaN(b) THEN NAN
    ELSE IF a.fin THEN b
    ELSE IF b.fin THEN a
    ELSE IF a.v = b.v THEN a ELSE NAN

Abs(n) == IF n < 0 THEN 0 - n ELSE n

\* floor(m * n / 100), the larger factor split as 100 q + r to keep the
\* intermediate products small
MulFxOf(m, n) ==
    LET big == IF Abs(m) >= Abs(n) THEN m ELSE n
        small == IF Abs(m) >= Abs(n) THEN n ELSE m
    IN  small * (big \div 100) + (small * (big % 100)) \div 100

MulFx(m, n) == Strict2(MulFxOf, m, n)

MulOf(a, b) ==
    IF a.fin /\ b.fin THEN Fin(MulFxOf(a.v, b.v))
    ELSE IF IsNaN(a) \/ IsNaN(b) THEN NAN
    ELSE IF Sign(a.v) * Sign(b.v) = 0 THEN NAN
    ELSE Signed(Sign(a.v) * Sign(b.v))

DivOf(a, b) ==
    IF IsNaN(a) \/ IsNaN(b) THEN NAN
    ELSE IF a.fin /\ b.fin
         THEN IF b.v = 0
              THEN (IF a.v = 0 THEN NAN ELSE Signed(Sign(a.v)))
              ELSE Fin((a.v * 100) \div b.v)
    ELSE IF a.fin THEN Fin(0)
    ELSE IF b.fin THEN Signed(IF b.v < 0 THEN 0 - a.v ELSE a.v)
    ELSE NAN

\* a < b on floats: false whenever an operand is NaN
LtOf(a, b) ==
    IF IsNaN(a) \/ IsNaN(b) THEN FALSE
    ELSE IF a.fin /\ b.fin THEN a.v < b.v
    ELSE IF a.fin THEN b.v = 1
    ELSE IF b.fin THEN a.v = -1
    ELSE a.v < b.v

\* -a, a + b, a - b, a * b, a / b, a < b, a > b
Neg(a) == Strict1(NegOf, a)
Add(a, b) == Strict2(AddOf, a, b)
Sub(a, b) == Strict2(AddOf, a, NegOf(b))
Mul(a, b) == Strict2(MulOf, a, b)
Div(a, b) == Strict2(DivOf, a, b)
Lt(a, b) == Strict2(LtOf, a, b)
Gt(a, b) == Strict2(LtOf, b, a)

RECURSIVE Log2Floor(_)
Log2Floor(n) == IF n < 2 THEN 0 ELSE 1 + Log2Floor(n \div 2)

RECURSIVE Pow2(_)
Pow2(k) == IF k = 0 THEN 1 ELSE 2 * Pow2(k - 1)

\* natural logarithm of n/100, in hundredths, for n > 0:
\* ln(2^k * m) = k ln 2 + ln m, ln m taken linear on [1,2), ln 100 = 4.61
LnFxOf(n) ==
    Strict1(LAMBDA k : 69 * k + (69 * (n - Pow2(k))) \div Pow2(k) - 461, Log2Floor(n))

LnFx(n) == Strict1(LnFxOf, n)

\* np.log
LogOf(a) ==
    IF IsNaN(a) THEN NAN
    ELSE IF a.fin
         THEN IF a.v < 0 THEN NAN
              ELSE IF a.v = 0 THEN NINF
              ELSE Fin(LnFx(a.v))
    ELSE IF a.v = 1 THEN INF ELSE NAN

Log(a) == Strict1(LogOf, a)

\* sum of the first n entries of s
RECURSIVE SumTo(_, _)
SumTo(s, n) == IF n = 0 THEN Fin(0) ELSE Add(SumTo(s, n - 1), s[n])

\* np.sum of a one-dimensional array
SumSeq(s) == SumTo(s, Len(s))

----------------------------------------------------------------------------
(* Program constants, in hundredths *)

\* true parameters of the logistic data set
true_r == 25
true_K == 6000
true_ic == 100
true_sigma == 360
\* box of the prior and of the minimizer: r, K, sigma, ic
r_lo == 0
r_hi == 100
K_lo == 1000
K_hi == 12000
sigma_lo == 10
sigma_hi == 3000
ic_lo == 10
ic_hi == 2000
\* np.log(2*np.pi) = 1.84
LOG_2PI == 184
\* np.random.seed(2021)
SEED == 2021
ndim == 4
\* true parameters and noise of the treated-tumor data set
treated_r == 25
treated_K == 6000
treated_f == 10
treated_g == 20
tumor_ic == 100
drug_ic == 500
true_sigmaT == 360
true_sigmaD == 20

----------------------------------------------------------------------------
(* State *)

VARIABLES
    solverOut,    \* what odeint leaves in the trajectory once the integration has failed
    fn_kind,      \* function under evaluation: "none", "log_probability", "nll"
    fn_pc,        \* position inside the evaluation
    fn_theta,     \* argument theta = <<r, K, sigma, ic>>
    fn_times,     \* argument times
    fn_y,         \* argument y
    fn_lp,        \* local lp of log_probability
    fn_model,     \* local model of log_likelihood_ic
    fn_calls,     \* functions entered by the evaluation, in order
    fn_result     \* value returned

fnvars == <<fn_kind, fn_pc, fn_theta, fn_times, fn_y, fn_lp, fn_model, fn_calls, fn_result>>

----------------------------------------------------------------------------
(* Forward model *)

\* def control_tumor(y, t, theta): theta[0] * y[0] * (1.0 - y[0] / theta[1])
control_tumor(y, t, theta) ==
    <<Mul(Mul(theta[1], y[1]), Sub(Fin(100), Div(y[1], theta[2])))>>

\* def treated_tumor(y, t, theta): [tumor, drug]
treated_tumor(y, t, theta) ==
    LET tumor == Sub(Mul(Mul(theta[1], y[1]), Sub(Fin(100), Div(y[1], theta[2]))),
                     Mul(Mul(theta[3], y[1]), y[2]))
        drug == Mul(Mul(Neg(theta[4]), y[1]), y[2])
    IN  <<tumor, drug>>

\* the right-hand side handed to odeint
Rhs(f, y, t, theta) ==
    IF f = "control_tumor" THEN control_tumor(y, t, theta) ELSE treated_tumor(y, t, theta)

AllFinite(s) == \A i \in 1..Len(s) : IsFinite(s[i])

\* dy scaled by h and added to y, one compartment after the other
RECURSIVE Shifted(_, _, _, _)
Shifted(y, dy, h, c) ==
    IF c > Len(y) THEN << >>
    ELSE <<Add(y[c], Mul(dy[c], h))>> \o Shifted(y, dy, h, c + 1)

\* a row of n copies of a
RECURSIVE Filled(_, _)
Filled(n, a) == IF n = 0 THEN << >> ELSE <<a>> \o Filled(n - 1, a)

\* a step that drops its increment
StepStalled(y, dy, h) == y

\* one internal step of length h with derivative dy; the state stops being
\* finite once a derivative is not finite
StepWith(y, dy, h) ==
    IF AllFinite(dy) /\ IsFinite(h) THEN Shifted(y, dy, h, 1) ELSE Filled(Len(y), NAN)

\* n internal steps of length h from state y
RECURSIVE Advance(_, _, _, _, _)
Advance(f, y, h, n, theta) ==
    IF n = 0 \/ ~AllFinite(y) THEN y
    ELSE With(Rhs(f, y, h, theta), LAMBDA dy :
         With(StepWith(y, dy, h), LAMBDA nxt : Advance(f, nxt, h, n - 1, theta)))

\* the row stored for a grid time: the state reached, or whatever the solver
\* left there (bad) once the integration has failed
Stored(nxt, failed, bad) ==
    IF (~failed) /\ AllFinite(nxt) THEN nxt ELSE Filled(Len(nxt), bad)

\* odeint(f, t=times, y0=y0, args=(theta,)): one row per grid time; the first
\* row is y0 and every later row advances the previous one over the grid
\* interval.  Once a derivative or a grid time is not finite the integration
\* has failed and the remaining rows hold bad.
RECURSIVE OdeintFrom(_, _, _, _, _, _, _)
OdeintFrom(f, times, i, prev, failed, theta, bad) ==
    IF i > Len(times) THEN << >>
    ELSE With(Div(Sub(times[i], times[i - 1]), Fin(100 * SubSteps)), LAMBDA h :
         With(Advance(f, prev, h, SubSteps, theta), LAMBDA nxt :
         With(Stored(nxt, failed, bad), LAMBDA cur :
              <<cur>> \o OdeintFrom(f, times, i + 1, cur, failed \/ ~AllFinite(cur), theta, bad))))

Odeint(f, times, y0, theta, bad) ==
    IF times = << >> THEN << >>
    ELSE <<y0>> \o OdeintFrom(f, times, 2, y0, ~IsFinite(times[1]), theta, bad)

\* column c of a two-dimensional array
Col(a, c) == [i \in 1..Len(a) |-> a[i][c]]

----------------------------------------------------------------------------
(* Likelihood, prior, posterior *)

\* def log_likelihood_ic(theta, times, y): the local model
LikelihoodModel(theta, times) ==
    Col(Odeint("control_tumor", times, <<Fin(theta[4])>>, <<Fin(theta[1]), Fin(theta[2])>>, solverOut), 1)

\* -0.5 * np.sum((y - model) ** 2 / variance + np.log(2*np.pi) + np.log(variance))
GaussianLogLik(y, model, variance) ==
    LET term(i) == LET d == Sub(y[i], model[i])
                   IN  Add(Add(Div(Mul(d, d), variance), Fin(LOG_2PI)), Log(variance))
    IN  Mul(Fin(-50), SumSeq([i \in 1..Len(y) |-> term(i)]))

log_likelihood_ic(theta, times, y) ==
    With(LikelihoodModel(theta, times),
         LAMBDA model : GaussianLogLik(y, model, Mul(Fin(theta[3]), Fin(theta[3]))))

\* nll = lambda *args: -log_likelihood_ic(*args)
nll(theta, times, y) == Neg(log_likelihood_ic(theta, times, y))

\* the box with its faces included
InPriorBoxClosed(theta) ==
    /\ r_lo <= theta[1] /\ theta[1] <= r_hi
    /\ K_lo <= theta[2] /\ theta[2] <= K_hi
    /\ sigma_lo <= theta[3] /\ theta[3] <= sigma_hi
    /\ ic_lo <= theta[4] /\ theta[4] <= ic_hi

\* the condition of log_prior's if
InPriorBox(theta) ==
    /\ r_lo < theta[1] /\ theta[1] < r_hi
    /\ K_lo < theta[2] /\ theta[2] < K_hi
    /\ sigma_lo < theta[3] /\ theta[3] < sigma_hi
    /\ ic_lo < theta[4] /\ theta[4] < ic_hi

log_prior(theta) == IF InPriorBox(theta) THEN Fin(0) ELSE NINF

\* a test that only catches NaN
PriorRejectsNaN(lp) == IsNaN(lp)

\* the condition of log_probability's if: not np.isfinite(lp)
PriorRejects(lp) == ~IsFinite(lp)

log_probability(theta, times, y) ==
    LET lp == log_prior(theta)
    IN  IF PriorRejects(lp) THEN NINF
        ELSE Add(lp, log_likelihood_ic(theta, times, y))

\* def log_likelihood(theta, times, y): the local model, y0 = y[0]
LikelihoodModel3(theta, times, y) ==
    Col(Odeint("control_tumor", times, <<y[1]>>, <<Fin(theta[1]), Fin(theta[2])>>, solverOut), 1)

\* def log_likelihood(theta, times, y): three parameters
log_likelihood(theta, times, y) ==
    With(LikelihoodModel3(theta, times, y),
         LAMBDA model : GaussianLogLik(y, model, Mul(Fin(theta[3]), Fin(theta[3]))))

\* nll = lambda *args: -log_likelihood(*args)
nll3(theta, times, y) == Neg(log_likelihood(theta, times, y))

----------------------------------------------------------------------------
(* State of the notebook *)

VARIABLES
    pc,           \* next cell of the notebook to execute
    run,          \* number of the current top-to-bottom run
    genA, genC,   \* the generator algorithm (fixed multiplier and increment)
    np_state,     \* state of the process-wide generator np.random
    times,        \* notebook variable times
    y,            \* notebook variable y: one row per time, one column per compartment
    yobs,         \* notebook variable yobs
    pos,          \* notebook variable pos: one theta per walker
    sampler_rng,  \* sampler._random, the generator owned by the sampler
    coords,       \* current position of each walker
    logp,         \* log_probability of each current position
    accepted,     \* per walker, whether the last step accepted its proposal
    chain,        \* backend chain: one row of walker positions per step
    failed,       \* the sampler raised ValueError
    samples,      \* notebook variable samples
    flat_samples, \* notebook variable flat_samples
    inds,         \* notebook variable inds
    outputs,      \* results of the cells executed in this run, in order
    prev_outputs, \* results of the cells of the previous run
    strayed,      \* history: np.random was used outside the cells during this run
    proposal_lp   \* history: log_probability of each walker's last proposal

nbvars == <<pc, run, genA, genC, np_state, times, y, yobs, pos, sampler_rng, coords, logp,
            accepted, chain, failed, samples, flat_samples, inds, outputs, prev_outputs,
            strayed, proposal_lp>>

----------------------------------------------------------------------------
(* Pseudo-random generators: np.random and the sampler's own RandomState   *)
(* run the same algorithm, a fixed map from one state to the next; a draw  *)
(* advances the state and reads the variate off the new state.             *)

RngStates == 0..(RngMod - 1)

RngNext(st) == (genA * st + genC) % RngMod

\* the states after 1, 2, ..., n draws from st
RECURSIVE DrawStates(_, _)
DrawStates(st, n) ==
    IF n = 0 THEN << >> ELSE <<RngNext(st)>> \o DrawStates(RngNext(st), n - 1)

\* state of the generator after n draws
AfterDraws(st, n) == IF n = 0 THEN st ELSE DrawStates(st, n)[n]

\* a seed call that leaves the generator where it is
SeededNot(seed, st) == st

\* np.random.seed(seed)
Seeded(seed, st) == seed % RngMod

\* random_sample(): uniform on [0, 1), the lower end included
Rand(st) == (100 * st) \div RngMod

\* np.random.uniform(low, high) = low + (high - low) * random_sample()
Uniform(low, high, st) == low + ((high - low) * st) \div RngMod

\* standard normal variate: from -4.00 to just under 4.00
StdNormal(st) == ((2 * st - RngMod) * 400) \div RngMod

\* np.random.normal(loc, scale)
Normal(loc, scale, st) == Add(loc, Mul(Fin(scale), Fin(StdNormal(st))))

\* np.random.normal(a, scale) over a one-dimensional array a
NormalSeq(a, scale, st) ==
    LET d == DrawStates(st, Len(a)) IN [i \in 1..Len(a) |-> Normal(a[i], scale, d[i])]

\* a clip with the threshold at -1
ClipBelowMinusOne(a) == IF Lt(a, Fin(-100)) THEN Fin(0) ELSE a

\* yobs[yobs < 0] = 0 on one entry
Clip(a) == IF Lt(a, Fin(0)) THEN Fin(0) ELSE a

ClipAll(a) == [i \in 1..Len(a) |-> [c \in 1..Len(a[i]) |-> Clip(a[i][c])]]

----------------------------------------------------------------------------
(* emcee.EnsembleSampler with the default StretchMove (a = 2)              *)

\* swap entries i and j of a sequence
Swap(s, i, j) == [s EXCEPT ![i] = s[j], ![j] = s[i]]

\* random.shuffle(x): for i = n-1 down to 1, swap x[i] with x[j], j drawn in 0..i
RECURSIVE ShuffleFrom(_, _, _)
ShuffleFrom(x, i, st) ==
    IF i < 1 THEN [x |-> x, st |-> st]
    ELSE LET st1 == RngNext(st)
             j == st1 % (i + 1)
         IN  ShuffleFrom(Swap(x, i + 1, j + 1), i - 1, st1)

Shuffle(x, st) == ShuffleFrom(x, Len(x) - 1, st)

\* all_inds[inds == k]
SplitMembers(split, k) ==
    SelectSeq([w \in 1..Len(split) |-> w], LAMBDA w : split[w] = k)

\* zz = ((a - 1) * rand + 1) ** 2 / a, a = 2
Stretch(st) == MulFx(Rand(st) + 100, Rand(st) + 100) \div 2

\* c[rint] - (c[rint] - s) * zz
StretchProposal(s, c, zz) == [d \in 1..ndim |-> c[d] - MulFx(c[d] - s[d], zz)]

\* the comparison turned around
AcceptsBelow(lnpdiff, u) == Lt(lnpdiff, Log(Fin(u)))

\* lnpdiff > np.log(random.rand())
Accepts(lnpdiff, u) == Gt(lnpdiff, Log(Fin(u)))

\* an update that moves every walker of the half, accepted or not
UpdatedAlways(old, new, acc) == new

\* state.coords after update(): accepted walkers of the split take their proposal
Updated(old, new, acc) == IF acc THEN new ELSE old

\* the half k of the ensemble proposes from the other half with the draws d:
\* q = c[rint] - (c[rint] - s) * zz, zz from the first Ns draws, rint from the next Ns
Proposals(cs, S, C, d) ==
    [i \in 1..Len(S) |->
        StretchProposal(cs[S[i]], cs[C[(d[Len(S) + i] % Len(C)) + 1]], Stretch(d[i]))]

\* factors = (ndim - 1) * np.log(zz)
Factors(S, d) == [i \in 1..Len(S) |-> Fin((ndim - 1) * LnFx(Stretch(d[i])))]

\* model.compute_log_prob_fn(q)
LogProbs(q, ts, data) ==
    [i \in 1..Len(q) |-> With(q[i], LAMBDA theta : log_probability(theta, ts, data))]

\* lnpdiff = f + nlp - state.log_prob[j], tested against the last Ns draws
Decisions(S, fac, nlp, lps, d) ==
    [i \in 1..Len(S) |->
        Accepts(Sub(Add(fac[i], nlp[i]), lps[S[i]]), Rand(d[2 * Len(S) + i]))]

\* place of walker w in the half S, 0 when it is in the other half
PlaceIn(S, w) == IF \E i \in 1..Len(S) : S[i] = w THEN CHOOSE i \in 1..Len(S) : S[i] = w ELSE 0

\* compute_log_prob raises ValueError("Probability function returned NaN");
\* otherwise state.update(): accepted walkers of the half take their proposal.
\* st is a record [coords, logp, accepted, nlp, rng, nan].
UpdateSplit(st, S, q, nlp, acc) ==
    IF \E i \in 1..Len(S) : IsNaN(nlp[i])
    THEN [st EXCEPT !.nan = TRUE, !.rng = AfterDraws(st.rng, 2 * Len(S))]
    ELSE [coords |-> [w \in 1..Len(st.coords) |->
                        IF PlaceIn(S, w) = 0 THEN st.coords[w]
                        ELSE Updated(st.coords[w], q[PlaceIn(S, w)], acc[PlaceIn(S, w)])],
          logp |-> [w \in 1..Len(st.coords) |->
                        IF PlaceIn(S, w) = 0 THEN st.logp[w]
                        ELSE Updated(st.logp[w], nlp[PlaceIn(S, w)], acc[PlaceIn(S, w)])],
          accepted |-> [w \in 1..Len(st.coords) |->
                        IF PlaceIn(S, w) = 0 THEN st.accepted[w] ELSE acc[PlaceIn(S, w)]],
          nlp |-> [w \in 1..Len(st.coords) |->
                        IF PlaceIn(S, w) = 0 THEN st.nlp[w] ELSE nlp[PlaceIn(S, w)]],
          rng |-> AfterDraws(st.rng, 3 * Len(S)),
          nan |-> FALSE]

\* RedBlueMove.propose for the half S of the ensemble, C the other half:
\* the draws, the proposals, their log-probabilities, the decisions, the update
ProposeHalf(st, S, C, ts, data) ==
    With(DrawStates(st.rng, 3 * Len(S)), LAMBDA d :
    With(Proposals(st.coords, S, C, d), LAMBDA q :
    With(LogProbs(q, ts, data), LAMBDA nlp :
    With(Decisions(S, Factors(S, d), nlp, st.logp, d), LAMBDA acc :
         UpdateSplit(st, S, q, nlp, acc)))))

ProposeSplit(st, split, k, ts, data) ==
    With(SplitMembers(split, k), LAMBDA S :
    With(SplitMembers(split, 1 - k), LAMBDA C : ProposeHalf(st, S, C, ts, data)))

\* for split in range(2): each half in turn, until one raises
RECURSIVE ProposeSplits(_, _, _, _, _)
ProposeSplits(st, split, k, ts, data) ==
    IF k > 1 \/ st.nan THEN st
    ELSE With(ProposeSplit(st, split, k, ts, data),
              LAMBDA nxt : ProposeSplits(nxt, split, k + 1, ts, data))

ProposeShuffled(cs, lps, sh, ts, data) ==
    ProposeSplits([coords |-> cs, logp |-> lps, accepted |-> [w \in 1..Len(cs) |-> FALSE],
                   nlp |-> [w \in 1..Len(cs) |-> NAN], rng |-> sh.st, nan |-> FALSE],
                  sh.x, 0, ts, data)

\* RedBlueMove.propose: split the walkers in two shuffled halves and update
\* each half from the other
Propose(cs, lps, rng, ts, data) ==
    With(Shuffle([w \in 1..Len(cs) |-> (w - 1) % 2], rng),
         LAMBDA sh : ProposeShuffled(cs, lps, sh, ts, data))

\* backend.save_step: the positions of all walkers become the next row
SaveStep(ch, cs) == Append(ch, cs)

\* a sampler that keeps the generator of the previous sampler
SamplerRngKept(glob, old) == old

\* the generator a new sampler starts from: np.random.get_state()
SamplerRngInit(glob, old) == glob

\* get_chain(discard=d): chain[d:]
ChainFrom(ch, d) == SubSeq(ch, d + 1, Len(ch))

\* a reshape that puts the latest step first
RECURSIVE FlattenNewestFirst(_)
FlattenNewestFirst(ch) ==
    IF ch = << >> THEN << >> ELSE FlattenNewestFirst(Tail(ch)) \o Head(ch)

\* reshape (steps, walkers, ndim) to (steps * walkers, ndim)
RECURSIVE Flatten(_)
Flatten(ch) == IF ch = << >> THEN << >> ELSE Head(ch) \o Flatten(Tail(ch))

\* get_chain(discard=d, flat=True)
GetChainFlat(ch, d) == Flatten(ChainFrom(ch, d))

----------------------------------------------------------------------------
(* Evaluation of the functions on arbitrary arguments *)

\* parameter vectors: below, on and above each bound, and inside the box
ThetaInputs ==
    {-10, r_lo, true_r, r_hi, 200} \X {0, K_lo, true_K, K_hi, 13000}
        \X {0, sigma_lo, true_sigma, sigma_hi, 4000} \X {5, ic_lo, true_ic, ic_hi, 2500}

\* np.arange(0, NumTimes, 1)
FiniteGrid == [i \in 1..NumTimes |-> Fin(100 * (i - 1))]

\* time grids: the regular grid, and grids whose last time is not finite
GridInputs == {FiniteGrid} \cup {[FiniteGrid EXCEPT ![NumTimes] = b] : b \in {INF, NAN}}

\* data sets aligned with the grid
DataInputs == {[i \in 1..NumTimes |-> Fin(100 * i)], [i \in 1..NumTimes |-> Fin(0)]}

\* arguments of the logistic solve as <<r, K, sigma, N0>>: r zero and positive;
\* N0 zero, small, mid-range, one unit of resolution below K, K, and above K
OdeInputs ==
    UNION {{<<r, K, true_sigma, n0>> : n0 \in {0, true_ic, K_lo - 1, K - 1, K, K + K_lo}} :
              r \in {0, true_r, r_hi, 200}, K \in {K_lo, true_K}}

NoFloats == << >>

FnIdle ==
    /\ fn_kind = "none"
    /\ fn_pc = "idle"
    /\ fn_theta = <<true_r, true_K, true_sigma, true_ic>>
    /\ fn_times = FiniteGrid
    /\ fn_y = [i \in 1..NumTimes |-> Fin(0)]
    /\ fn_lp = NAN
    /\ fn_model = NoFloats
    /\ fn_calls = << >>
    /\ fn_result = NAN

\* a caller enters f(theta, times, y)
Enter(kind, first) ==
    /\ \E th \in ThetaInputs, ts \in GridInputs, d \in DataInputs :
          /\ fn_theta' = th
          /\ fn_times' = ts
          /\ fn_y' = d
    /\ fn_kind' = kind
    /\ fn_pc' = first
    /\ fn_lp' = NAN
    /\ fn_model' = NoFloats
    /\ fn_calls' = << >>
    /\ fn_result' = NAN
    /\ UNCHANGED <<nbvars, solverOut>>

CallLogProbability ==
    /\ fn_pc = "idle"
    /\ Enter("log_probability", "prior")

\* lp = log_prior(theta)
EvalPrior ==
    /\ fn_kind = "log_probability" /\ fn_pc = "prior"
    /\ fn_lp' = log_prior(fn_theta)
    /\ fn_calls' = Append(fn_calls, "log_prior")
    /\ fn_pc' = "test"
    /\ UNCHANGED <<nbvars, solverOut, fn_kind, fn_theta, fn_times, fn_y, fn_model, fn_result>>

\* if not np.isfinite(lp): return -np.inf
ReturnRejected ==
    /\ fn_kind = "log_probability" /\ fn_pc = "test"
    /\ PriorRejects(fn_lp)
    /\ fn_result' = NINF
    /\ fn_pc' = "done"
    /\ UNCHANGED <<nbvars, solverOut, fn_kind, fn_theta, fn_times, fn_y, fn_lp, fn_model, fn_calls>>

\* return lp + log_likelihood_ic(theta, times, y)
ReturnPosterior ==
    /\ fn_kind = "log_probability" /\ fn_pc = "test"
    /\ ~PriorRejects(fn_lp)
    /\ fn_model' = LikelihoodModel(fn_theta, fn_times)
    /\ fn_calls' = Append(fn_calls, "log_likelihood_ic")
    /\ fn_result' = Add(fn_lp, log_likelihood_ic(fn_theta, fn_times, fn_y))
    /\ fn_pc' = "done"
    /\ UNCHANGED <<nbvars, solverOut, fn_kind, fn_theta, fn_times, fn_y, fn_lp>>

CallNll ==
    /\ fn_pc = "idle"
    /\ Enter("nll", "body")

\* the body of the four-parameter nll
EvalNll ==
    /\ fn_kind = "nll" /\ fn_pc = "body"
    /\ fn_model' = LikelihoodModel(fn_theta, fn_times)
    /\ fn_calls' = Append(fn_calls, "log_likelihood_ic")
    /\ fn_result' = nll(fn_theta, fn_times, fn_y)
    /\ fn_pc' = "done"
    /\ UNCHANGED <<nbvars, solverOut, fn_kind, fn_theta, fn_times, fn_y, fn_lp>>

CallNll3 ==
    /\ fn_pc = "idle"
    /\ Enter("nll3", "body")

\* the body of the three-parameter nll (theta[3] is not read)
EvalNll3 ==
    /\ fn_kind = "nll3" /\ fn_pc = "body"
    /\ fn_model' = LikelihoodModel3(fn_theta, fn_times, fn_y)
    /\ fn_calls' = Append(fn_calls, "log_likelihood")
    /\ fn_result' = nll3(fn_theta, fn_times, fn_y)
    /\ fn_pc' = "done"
    /\ UNCHANGED <<nbvars, solverOut, fn_kind, fn_theta, fn_times, fn_y, fn_lp>>

\* y = odeint(control_tumor, t=times, y0=N0, args=tuple([[r,K]])) on the grid
CallOdeint ==
    /\ fn_pc = "idle"
    /\ fn_theta' \in OdeInputs
    /\ fn_times' = FiniteGrid
    /\ fn_kind' = "odeint"
    /\ fn_pc' = "body"
    /\ UNCHANGED <<nbvars, solverOut, fn_y, fn_lp, fn_model, fn_calls, fn_result>>

\* the trajectory of the single compartment
EvalOdeint ==
    /\ fn_kind = "odeint" /\ fn_pc = "body"
    /\ fn_model' = Col(Odeint("control_tumor", fn_times, <<Fin(fn_theta[4])>>,
                              <<Fin(fn_theta[1]), Fin(fn_theta[2])>>, solverOut), 1)
    /\ fn_calls' = Append(fn_calls, "odeint")
    /\ fn_pc' = "done"
    /\ UNCHANGED <<nbvars, solverOut, fn_kind, fn_theta, fn_times, fn_y, fn_lp, fn_result>>

\* the value is handed to the caller and the frame is dropped
Return ==
    /\ fn_pc = "done"
    /\ fn_kind' = "none"
    /\ fn_pc' = "idle"
    /\ fn_theta' = <<true_r, true_K, true_sigma, true_ic>>
    /\ fn_times' = FiniteGrid
    /\ fn_y' = [i \in 1..NumTimes |-> Fin(0)]
    /\ fn_lp' = NAN
    /\ fn_model' = NoFloats
    /\ fn_calls' = << >>
    /\ fn_result' = NAN
    /\ UNCHANGED <<nbvars, solverOut>>

FnNext ==
    \/ CallLogProbability
    \/ EvalPrior
    \/ ReturnRejected
    \/ ReturnPosterior
    \/ CallNll
    \/ EvalNll
    \/ CallNll3
    \/ EvalNll3
    \/ CallOdeint
    \/ EvalOdeint
    \/ Return

----------------------------------------------------------------------------
(* The notebook, cell by cell *)

Unset == << >>

\* a fresh kernel: nothing assigned yet, the generator in an arbitrary state
NbInit ==
    /\ pc = "solve"
    /\ run = 1
    /\ genA \in {1, 5, 9, 13}
    /\ genC \in {1, 7}
    /\ np_state \in RngStates
    /\ times = Unset
    /\ y = Unset
    /\ yobs = Unset
    /\ pos = Unset
    /\ sampler_rng = 0
    /\ coords = Unset
    /\ logp = Unset
    /\ accepted = Unset
    /\ chain = Unset
    /\ failed = FALSE
    /\ samples = Unset
    /\ flat_samples = Unset
    /\ inds = Unset
    /\ outputs = << >>
    /\ prev_outputs = << >>
    /\ strayed = FALSE
    /\ proposal_lp = Unset

\* the notebook is not run
NbIdle ==
    /\ pc = "idle"
    /\ run = 1
    /\ genA = 1
    /\ genC = 1
    /\ np_state = 0
    /\ times = Unset
    /\ y = Unset
    /\ yobs = Unset
    /\ pos = Unset
    /\ sampler_rng = 0
    /\ coords = Unset
    /\ logp = Unset
    /\ accepted = Unset
    /\ chain = Unset
    /\ failed = FALSE
    /\ samples = Unset
    /\ flat_samples = Unset
    /\ inds = Unset
    /\ outputs = << >>
    /\ prev_outputs = << >>
    /\ strayed = FALSE
    /\ proposal_lp = Unset

\* some other use of np.random before the next cell that seeds it
StrayDraw ==
    /\ pc \in {"solve", "perturb", "solve_treated", "perturb_treated"}
    /\ np_state' = RngNext(np_state)
    /\ UNCHANGED <<pc, run, genA, genC, times, y, yobs, pos, sampler_rng, coords, logp,
                   accepted, chain, failed, samples, flat_samples, inds, outputs, prev_outputs>>
    /\ UNCHANGED <<solverOut, fnvars, proposal_lp>>
    /\ strayed' = TRUE

\* times = np.arange(0,50,1); y = odeint(control_tumor, t=times, y0=true_ic, ...)
SolveModel ==
    /\ pc = "solve"
    /\ times' = FiniteGrid
    /\ y' = Odeint("control_tumor", FiniteGrid, <<Fin(true_ic)>>,
                   <<Fin(true_r), Fin(true_K)>>, solverOut)
    /\ pc' = "perturb"
    /\ UNCHANGED <<run, genA, genC, np_state, yobs, pos, sampler_rng, coords, logp,
                   accepted, chain, failed, samples, flat_samples, inds, outputs, prev_outputs>>
    /\ UNCHANGED <<solverOut, fnvars, strayed, proposal_lp>>

\* np.random.seed(2021); yobs = np.random.normal(y,true_sigma); yobs[yobs < 0] = 0
AddPerturbation ==
    /\ pc = "perturb"
    /\ LET st == Seeded(SEED, np_state)
           noisy == NormalSeq(Col(y, 1), true_sigma, st)
           obs == ClipAll([i \in 1..Len(y) |-> <<noisy[i]>>])
       IN  /\ yobs' = obs
           /\ np_state' = AfterDraws(st, Len(y))
           /\ outputs' = Append(outputs, <<"perturb", obs>>)
    /\ pc' = "walkers"
    /\ UNCHANGED <<run, genA, genC, times, y, pos, sampler_rng, coords, logp,
                   accepted, chain, failed, samples, flat_samples, inds, prev_outputs>>
    /\ UNCHANGED <<solverOut, fnvars, strayed, proposal_lp>>

\* pos[i] = uniform draws of r, K, sigma, ic, for i in range(nwalkers)
InitWalkers ==
    /\ pc = "walkers"
    /\ LET d == DrawStates(np_state, ndim * NumWalkers)
           p == [i \in 1..NumWalkers |->
                   <<Uniform(r_lo, r_hi, d[ndim * (i - 1) + 1]),
                     Uniform(K_lo, K_hi, d[ndim * (i - 1) + 2]),
                     Uniform(sigma_lo, sigma_hi, d[ndim * (i - 1) + 3]),
                     Uniform(ic_lo, ic_hi, d[ndim * (i - 1) + 4])>>]
       IN  /\ pos' = p
           /\ np_state' = AfterDraws(np_state, ndim * NumWalkers)
           /\ outputs' = Append(outputs, <<"walkers", p>>)
    /\ pc' = "sampler"
    /\ UNCHANGED <<run, genA, genC, times, y, yobs, sampler_rng, coords, logp,
                   accepted, chain, failed, samples, flat_samples, inds, prev_outputs>>
    /\ UNCHANGED <<solverOut, fnvars, strayed, proposal_lp>>

\* sampler = emcee.EnsembleSampler(nwalkers, ndim, log_probability, args=(times, yobs))
CreateSampler ==
    /\ pc = "sampler"
    /\ sampler_rng' = SamplerRngInit(np_state, sampler_rng)
    /\ chain' = << >>
    /\ coords' = Unset
    /\ logp' = Unset
    /\ accepted' = Unset
    /\ failed' = FALSE
    /\ proposal_lp' = Unset
    /\ pc' = "run_mcmc"
    /\ UNCHANGED <<run, genA, genC, np_state, times, y, yobs, pos,
                   samples, flat_samples, inds, outputs, prev_outputs>>
    /\ UNCHANGED <<solverOut, fnvars, strayed>>

\* the initial state of run_mcmc with its log-probabilities lps
StartWith(lps) ==
    /\ coords' = pos
    /\ logp' = lps
    /\ failed' = \E w \in 1..Len(lps) : IsNaN(lps[w])
    /\ pc' = IF \E w \in 1..Len(lps) : IsNaN(lps[w]) THEN "aborted" ELSE "mcmc"

\* sampler.run_mcmc(pos, nsteps): the initial state and its log-probabilities
StartMcmc ==
    /\ pc = "run_mcmc"
    /\ \E lps \in {LogProbs(pos, times, Col(yobs, 1))} : StartWith(lps)
    /\ accepted' = [w \in 1..Len(pos) |-> FALSE]
    /\ proposal_lp' = [w \in 1..Len(pos) |-> NAN]
    /\ UNCHANGED <<run, genA, genC, np_state, times, y, yobs, pos, sampler_rng,
                   chain, samples, flat_samples, inds, outputs, prev_outputs>>
    /\ UNCHANGED <<solverOut, fnvars, strayed>>

\* the outcome st of the move: ValueError aborts the run, otherwise the step is
\* saved and the run ends with the last step
StepTo(st) ==
    /\ sampler_rng' = st.rng
    /\ IF st.nan
       THEN /\ failed' = TRUE
            /\ pc' = "aborted"
            /\ UNCHANGED <<coords, logp, accepted, chain, outputs, proposal_lp>>
       ELSE /\ coords' = st.coords
            /\ proposal_lp' = st.nlp
            /\ logp' = st.logp
            /\ accepted' = st.accepted
            /\ chain' = SaveStep(chain, st.coords)
            /\ pc' = IF Len(chain) + 1 >= NumSteps THEN "get_chain" ELSE "mcmc"
            /\ outputs' = IF Len(chain) + 1 >= NumSteps
                          THEN Append(outputs, <<"run_mcmc", SaveStep(chain, st.coords)>>)
                          ELSE outputs
            /\ UNCHANGED failed

\* one iteration of run_mcmc: propose, accept or reject, save the step
McmcStep ==
    /\ pc = "mcmc"
    /\ Len(chain) < NumSteps
    /\ \E st \in {Propose(coords, logp, sampler_rng, times, Col(yobs, 1))} : StepTo(st)
    /\ UNCHANGED <<run, genA, genC, np_state, times, y, yobs, pos,
                   samples, flat_samples, inds, prev_outputs>>
    /\ UNCHANGED <<solverOut, fnvars, strayed>>

\* samples = sampler.get_chain()
GetChain ==
    /\ pc = "get_chain"
    /\ samples' = ChainFrom(chain, 0)
    /\ pc' = "flat"
    /\ UNCHANGED <<run, genA, genC, np_state, times, y, yobs, pos, sampler_rng, coords, logp,
                   accepted, chain, failed, flat_samples, inds, outputs, prev_outputs>>
    /\ UNCHANGED <<solverOut, fnvars, strayed, proposal_lp>>

\* flat_samples = sampler.get_chain(discard=500, flat=True)
GetFlatSamples ==
    /\ pc = "flat"
    /\ flat_samples' = GetChainFlat(chain, Discard)
    /\ outputs' = Append(outputs, <<"flat", GetChainFlat(chain, Discard)>>)
    /\ pc' = "plot"
    /\ UNCHANGED <<run, genA, genC, np_state, times, y, yobs, pos, sampler_rng, coords, logp,
                   accepted, chain, failed, samples, inds, prev_outputs>>
    /\ UNCHANGED <<solverOut, fnvars, strayed, proposal_lp>>

\* inds = np.random.randint(len(flat_samples), size=100)
PlotPosterior ==
    /\ pc = "plot"
    /\ Len(flat_samples) > 0
    /\ LET d == DrawStates(np_state, NumPlotted)
       IN  inds' = [i \in 1..NumPlotted |-> d[i] % Len(flat_samples)]
    /\ np_state' = AfterDraws(np_state, NumPlotted)
    /\ pc' = "solve_treated"
    /\ UNCHANGED <<run, genA, genC, times, y, yobs, pos, sampler_rng, coords, logp,
                   accepted, chain, failed, samples, flat_samples, outputs, prev_outputs>>
    /\ UNCHANGED <<solverOut, fnvars, strayed, proposal_lp>>

\* np.arange(0, NumTimes / 2, 0.5)
HalfGrid == [i \in 1..NumTimes |-> Fin(50 * (i - 1))]

\* times = np.arange(0,50,0.5); y = odeint(treated_tumor, t=times, y0=[tumor_ic,drug_ic], ...)
SolveTreated ==
    /\ pc = "solve_treated"
    /\ times' = HalfGrid
    /\ y' = Odeint("treated_tumor", HalfGrid, <<Fin(tumor_ic), Fin(drug_ic)>>,
                   <<Fin(treated_r), Fin(treated_K), Fin(treated_f), Fin(treated_g)>>, solverOut)
    /\ pc' = "perturb_treated"
    /\ UNCHANGED <<run, genA, genC, np_state, yobs, pos, sampler_rng, coords, logp,
                   accepted, chain, failed, samples, flat_samples, inds, outputs, prev_outputs>>
    /\ UNCHANGED <<solverOut, fnvars, strayed, proposal_lp>>

\* np.random.seed(2021); yobs[:,0] = normal(y[:,0],true_sigmaT);
\* yobs[:,1] = normal(y[:,1],true_sigmaD); yobs[yobs < 0] = 0
AddPerturbationTreated ==
    /\ pc = "perturb_treated"
    /\ LET st == Seeded(SEED, np_state)
           tumor == NormalSeq(Col(y, 1), true_sigmaT, st)
           st2 == AfterDraws(st, Len(y))
           drug == NormalSeq(Col(y, 2), true_sigmaD, st2)
           obs == ClipAll([i \in 1..Len(y) |-> <<tumor[i], drug[i]>>])
       IN  /\ yobs' = obs
           /\ np_state' = AfterDraws(st2, Len(y))
           /\ outputs' = Append(outputs, <<"perturb_treated", obs>>)
    /\ pc' = "done"
    /\ UNCHANGED <<run, genA, genC, times, y, pos, sampler_rng, coords, logp,
                   accepted, chain, failed, samples, flat_samples, inds, prev_outputs>>
    /\ UNCHANGED <<solverOut, fnvars, strayed, proposal_lp>>

\* the notebook is run again from the top in the same kernel
RunAgain ==
    /\ pc = "done"
    /\ run < MaxRuns
    /\ run' = run + 1
    /\ prev_outputs' = outputs
    /\ outputs' = << >>
    /\ pc' = "solve"
    /\ UNCHANGED <<genA, genC, np_state, times, y, yobs, pos, sampler_rng, coords, logp,
                   accepted, chain, failed, samples, flat_samples, inds>>
    /\ UNCHANGED <<solverOut, fnvars, proposal_lp>>
    /\ strayed' = FALSE

NbNext ==
    \/ StrayDraw
    \/ SolveModel
    \/ AddPerturbation
    \/ InitWalkers
    \/ CreateSampler
    \/ StartMcmc
    \/ McmcStep
    \/ GetChain
    \/ GetFlatSamples
    \/ PlotPosterior
    \/ SolveTreated
    \/ AddPerturbationTreated
    \/ RunAgain

vars == <<solverOut, fnvars, nbvars>>

SolverOutcomes == {INF, NINF, NAN}

\* the functions evaluated on their own
InitFn == solverOut \in SolverOutcomes /\ FnIdle /\ NbIdle

SpecFn == InitFn /\ [][FnNext]_vars

\* the notebook run from top to bottom
Init == solverOut \in SolverOutcomes /\ FnIdle /\ NbInit

Next == NbNext

Spec == Init /\ [][Next]_vars

\* the kernel executes the next cell, and run_mcmc its next iteration, until done
FairSpec == Spec /\ WF_vars(Next)

----------------------------------------------------------------------------
(* Claims on the functions *)

HasNonFinite(s) == \E i \in 1..Len(s) : ~IsFinite(s[i])

Returned(kind) == fn_kind = kind /\ fn_pc = "done"

\* theta has a component outside its declared open interval:
\* r in (0,1), K in (10,120), sigma in (0.1,30), ic in (0.1,20)
OutsideBox(theta) ==
    \/ theta[1] <= 0 \/ theta[1] >= 100
    \/ theta[2] <= 1000 \/ theta[2] >= 12000
    \/ theta[3] <= 10 \/ theta[3] >= 3000
    \/ theta[4] <= 10 \/ theta[4] >= 2000

\* theta has a component outside the closed box handed to minimize
OutsideBounds(theta, n) ==
    \/ theta[1] < 0 \/ theta[1] > 100
    \/ theta[2] < 1000 \/ theta[2] > 12000
    \/ theta[3] < 10 \/ theta[3] > 3000
    \/ (n = 4 /\ (theta[4] < 10 \/ theta[4] > 2000))

\* C1: log_probability returns -infinity for every theta with a component
\* outside its open interval, whatever the time grid and the data.
C1_OutOfBoxIsMinusInf ==
    (Returned("log_probability") /\ OutsideBox(fn_theta)) => fn_result = NINF

\* C1 holds where it matters: a rejected theta outside the box, with a finite
\* likelihood that the short-circuit hides
C1_Witness ==
    /\ Returned("log_probability")
    /\ OutsideBox(fn_theta)
    /\ fn_result = NINF
    /\ IsFinite(log_likelihood_ic(fn_theta, fn_times, fn_y))

\* C2: log_likelihood_ic is entered only after log_prior returned a finite
\* value; when log_prior is -infinity, log_probability returns -infinity
\* having entered log_prior only.
C2_ShortCircuit ==
    fn_kind = "log_probability" =>
        /\ (\E i \in 1..Len(fn_calls) : fn_calls[i] = "log_likelihood_ic")
               => (fn_calls = <<"log_prior", "log_likelihood_ic">> /\ IsFinite(fn_lp))
        /\ (fn_pc = "done" /\ fn_lp = NINF)
               => (fn_result = NINF /\ fn_calls = <<"log_prior">> /\ fn_model = NoFloats)

C2_Witness ==
    /\ Returned("log_probability")
    /\ fn_lp = NINF
    /\ fn_calls = <<"log_prior">>
    /\ fn_result = NINF

\* C3 as stated: the objective nll handed to minimize returns +infinity for
\* every theta outside the declared bounds.
C3_NllRejectsOutOfBox ==
    /\ (Returned("nll") /\ OutsideBounds(fn_theta, 4)) => fn_result = INF
    /\ (Returned("nll3") /\ OutsideBounds(fn_theta, 3)) => fn_result = INF

\* C4 as stated: an in-box theta whose trajectory holds a non-finite value
\* gives log_probability = -infinity and nll = +infinity.
C4_FailureIsSentinel ==
    (fn_pc = "done" /\ InPriorBox(fn_theta) /\ HasNonFinite(fn_model)) =>
        /\ fn_kind = "log_probability" => fn_result = NINF
        /\ fn_kind = "nll" => fn_result = INF

\* the solve returned for r > 0, K > 0 and N0 strictly between 0 and K
LogisticCase ==
    /\ Returned("odeint")
    /\ fn_theta[1] > 0 /\ fn_theta[2] > 0
    /\ 0 < fn_theta[4] /\ fn_theta[4] < fn_theta[2]

\* the growth of N over one internal step of the solver is at least one
\* unit of the arithmetic's resolution
Resolved(N) ==
    Gt(Mul(control_tumor(<<N>>, Fin(0), <<Fin(fn_theta[1]), Fin(fn_theta[2])>>)[1],
           Div(Fin(100), Fin(100 * SubSteps))), Fin(0))

----------------------------------------------------------------------------
(* Claims on the notebook *)

NonNegative(a) == IsFinite(a) /\ a.v >= 0

\* the output of cell c in the log out, << >> when the cell has not run
OutputOf(out, c) ==
    IF \E i \in 1..Len(out) : out[i][1] = c
    THEN out[CHOOSE i \in 1..Len(out) : out[i][1] = c][2]
    ELSE << >>

\* C5: once a data set has been generated (noise added, then clipped), every
\* entry of yobs is >= 0, for every compartment and time, in both data sets.
C5_ObservationsNonNegative ==
    /\ \A i \in 1..Len(yobs) : \A c \in 1..Len(yobs[i]) : NonNegative(yobs[i][c])
    /\ \A k \in 1..Len(outputs) :
          outputs[k][1] \in {"perturb", "perturb_treated"} =>
              \A i \in 1..Len(outputs[k][2]) : \A c \in 1..Len(outputs[k][2][i]) :
                  NonNegative(outputs[k][2][i][c])

\* some entry of the data set a is 0 where the true trajectory b is positive
ClippedEntry(a, b) ==
    \E i \in 1..Len(a) : \E c \in 1..Len(a[i]) : a[i][c] = Fin(0) /\ b[i][c].v > 0

\* both data sets generated, each with an entry the clipping set to 0
C5_Witness ==
    /\ pc = "done"
    /\ Len(yobs) = NumTimes /\ Len(yobs[1]) = 2
    /\ ClippedEntry(yobs, y)
    /\ \E i \in 1..NumTimes : OutputOf(outputs, "perturb")[i][1] = Fin(0)

\* C6: a second run of the data-generation cells gives the same yobs as the
\* first, for both data sets, however many draws preceded the seed call.
C6_SameData ==
    run > 1 =>
        \A k \in 1..Len(outputs) :
            outputs[k][1] \in {"perturb", "perturb_treated"} =>
                outputs[k][2] = OutputOf(prev_outputs, outputs[k][1])

\* second run complete, with stray draws before its seed calls
C6_Witness ==
    /\ run = 2 /\ pc = "done" /\ strayed
    /\ OutputOf(outputs, "perturb") = OutputOf(prev_outputs, "perturb")
    /\ OutputOf(outputs, "perturb_treated") = OutputOf(prev_outputs, "perturb_treated")
    /\ Len(OutputOf(outputs, "perturb")) = NumTimes

\* C7: two complete runs of the notebook give the same initial walker
\* positions and the same chain.
C7_SamePipeline ==
    run > 1 =>
        \A k \in 1..Len(outputs) :
            outputs[k][1] \in {"walkers", "run_mcmc"} =>
                outputs[k][2] = OutputOf(prev_outputs, outputs[k][1])

\* second run complete, its chain equal to the first one's and not constant
C7_Witness ==
    /\ run = 2 /\ pc = "done"
    /\ OutputOf(outputs, "run_mcmc") = chain
    /\ OutputOf(prev_outputs, "run_mcmc") = chain
    /\ OutputOf(prev_outputs, "walkers") = pos
    /\ chain[1] # chain[NumSteps]

FlatAssigned == pc \in {"plot", "solve_treated", "perturb_treated", "done"}

\* C8: the chain has shape (steps, walkers, ndim); the flat chain after the
\* discard has (steps - discard) * walkers rows, row k being walker k mod W at
\* step discard + k div W.
C8_StepWalkerOrder ==
    FlatAssigned =>
        /\ samples = chain
        /\ Len(samples) = NumSteps
        /\ \A t \in 1..Len(samples) :
              /\ Len(samples[t]) = NumWalkers
              /\ \A w \in 1..Len(samples[t]) : Len(samples[t][w]) = ndim
        /\ Len(flat_samples) = (NumSteps - Discard) * NumWalkers
        /\ \A k \in 0..(Len(flat_samples) - 1) :
              flat_samples[k + 1] = chain[Discard + (k \div NumWalkers) + 1][(k % NumWalkers) + 1]

\* a flat chain whose rows differ between walkers and between steps
C8_Witness ==
    /\ FlatAssigned
    /\ Len(flat_samples) = (NumSteps - Discard) * NumWalkers
    /\ flat_samples[1] # flat_samples[2]
    /\ flat_samples[1] # flat_samples[1 + NumWalkers]

\* one iteration of run_mcmc that saved its step
SavedStep == pc = "mcmc" /\ pc' \in {"mcmc", "get_chain"}

\* C9: run_mcmc never aborts, every iteration appends one row with one
\* position per walker, a walker whose proposal is rejected (a proposal of
\* -infinity posterior always is) keeps its position, rows already recorded
\* stay, and the run ends after exactly NumSteps iterations.
C9_SamplerProgress ==
    /\ [][pc = "mcmc" => pc' \in {"mcmc", "get_chain"}]_vars
    /\ [][SavedStep =>
            /\ Len(chain') = Len(chain) + 1
            /\ SubSeq(chain', 1, Len(chain)) = chain
            /\ Len(chain'[Len(chain')]) = NumWalkers
            /\ \A w \in 1..NumWalkers :
                  /\ ~accepted'[w] => chain'[Len(chain')][w] = coords[w]
                  /\ proposal_lp'[w] = NINF => ~accepted'[w]]_vars
    /\ [](pc = "get_chain" => Len(chain) = NumSteps)
    /\ (pc = "run_mcmc") ~> (pc = "get_chain" /\ Len(chain) = NumSteps)

\* a walker whose proposal of -infinity posterior was rejected and whose
\* position was recorded again
C9_Witness ==
    /\ pc \in {"mcmc", "get_chain"}
    /\ Len(chain) >= 2
    /\ \E w \in 1..NumWalkers :
          /\ proposal_lp[w] = NINF
          /\ ~accepted[w]
          /\ chain[Len(chain)][w] = chain[Len(chain) - 1][w]

\* the sampler of this run has started from pos
SamplerRan ==
    pc \in {"mcmc", "get_chain", "flat", "plot", "solve_treated", "perturb_treated", "done"}

\* every walker started with a finite log_probability on this run's data
StartedFinite ==
    \A w \in 1..Len(pos) :
        IsFinite(log_probability(pos[w], FiniteGrid, Col(OutputOf(outputs, "perturb"), 1)))

\* C12: when every walker starts with a finite log_probability, every position
\* recorded in the chain, and every row of flat_samples, has 0 < r < 1,
\* 10 < K < 120, 0.1 < sigma < 30 and 0.1 < ic < 20.
C12_ChainInBox ==
    (SamplerRan /\ StartedFinite) =>
        /\ \A t \in 1..Len(chain) : \A w \in 1..Len(chain[t]) : ~OutsideBox(chain[t][w])
        /\ FlatAssigned => \A k \in 1..Len(flat_samples) : ~OutsideBox(flat_samples[k])

\* a complete chain from a finite start in which a walker has moved and the
\* last step rejected a proposal of -infinity posterior
C12_Witness ==
    /\ FlatAssigned /\ StartedFinite
    /\ Len(chain) = NumSteps
    /\ Len(flat_samples) > 0
    /\ \E w \in 1..NumWalkers : chain[NumSteps][w] # pos[w]
    /\ \E w \in 1..NumWalkers : proposal_lp[w] = NINF /\ ~accepted[w]

\* C10 as stated: every initial walker position has log_prior 0.
C10_WalkersStartInBox ==
    \A w \in 1..Len(pos) : log_prior(pos[w]) = Fin(0)

====
